---- MODULE Spec2Model ----
(***************************************************************************)
(* A model of spotfinder.py: remove_hot_pixels, multiCens, filter_points   *)
(* and SpotFinder.get_centroids.  Each function has its own specification  *)
(* (SpecHot, SpecMC, SpecFilter, SpecGC); the variables of the functions a *)
(* specification does not run stay at their idle values.                   *)
(*                                                                         *)
(* Numbers.  Pixel values are kept in quarters of a count (a pixel of 6    *)
(* counts is 24), so that the average of four neighbours, "sum / 4.", is   *)
(* exact.  Point coordinates of filter_points are in tenths of a pixel.    *)
(* A fitted Gaussian width is in thousandths of a pixel and an FWHM in     *)
(* millionths (2.355 is 2355 thousandths).                                 *)
(***************************************************************************)
EXTENDS Integers, Sequences, FiniteSets, TLC

VARIABLES
    pc,                 \* position of the function that is running
    \* remove_hot_pixels
    image0,             \* the image as passed in
    image,              \* the image array, modified in place and returned
    nsigma,
    \* filter_points
    points, threshold, filtered_points,
    \* SpotFinder.get_centroids
    self_img,           \* self.img: "None" or "array"
    print_summary,
    mc_out,             \* what multiCens did: returned four lists, or raised
    bound,              \* whether x_sorted .. energy_sorted are bound
    sindex, sorted_cols,\* the permutation and the five sorted sequences
    centroids,          \* the dict built in the try block, or None
    gc_filtered,        \* filtered_points of the finally block
    gc_result,          \* what get_centroids hands to its caller
    \* multiCens
    img, n_centroids_to_keep, no_otsu, save_dir, size_fitbox,
    call,               \* the arguments of the outermost invocation
    level, bw, labeled, sizes, sorted_sizes_indexes, good_spot_indexes,
    centers, i, params, fwhm,
    fits,               \* per candidate, the fits made: window half-width, FWHM
    xCenSub, yCenSub, peaks, FWHMSub,
    retries,            \* recursive calls made at line 232
    hot_runs            \* times line 195 has run in this invocation

hvars == <<image0, image, nsigma>>
fvars == <<points, threshold, filtered_points>>
gvars == <<self_img, print_summary, mc_out, bound, sindex, sorted_cols,
           centroids, gc_filtered, gc_result>>
mvars == <<img, n_centroids_to_keep, no_otsu, save_dir, size_fitbox, call,
           level, bw, labeled, sizes, sorted_sizes_indexes,
           good_spot_indexes, centers, i, params, fwhm, fits,
           xCenSub, yCenSub, peaks, FWHMSub, retries, hot_runs>>
vars == <<pc, hvars, fvars, gvars, mvars>>

Idle == "idle"
HIdle == image0 = Idle /\ image = Idle /\ nsigma = Idle
FIdle == points = Idle /\ threshold = Idle /\ filtered_points = Idle
GIdle == /\ self_img = Idle /\ print_summary = Idle /\ mc_out = Idle
         /\ bound = Idle /\ sindex = Idle /\ sorted_cols = Idle
         /\ centroids = Idle /\ gc_filtered = Idle /\ gc_result = Idle
MIdle == /\ img = Idle /\ n_centroids_to_keep = Idle /\ no_otsu = Idle
         /\ save_dir = Idle /\ size_fitbox = Idle /\ call = Idle
         /\ level = Idle /\ bw = Idle /\ labeled = Idle /\ sizes = Idle
         /\ sorted_sizes_indexes = Idle /\ good_spot_indexes = Idle
         /\ centers = Idle /\ i = Idle /\ params = Idle /\ fwhm = Idle
         /\ fits = Idle /\ xCenSub = Idle /\ yCenSub = Idle /\ peaks = Idle
         /\ FWHMSub = Idle /\ retries = Idle /\ hot_runs = Idle

Abs(a) == IF a < 0 THEN -a ELSE a
Min2(a, b) == IF a < b THEN a ELSE b
Max2(a, b) == IF a < b THEN b ELSE a
Range(s) == {s[k] : k \in DOMAIN s}
SeqsUpTo(S, n) == UNION {[1..m -> S] : m \in 0..n}

RECURSIVE SumOver(_, _)
\* sum of f[p] over the finite set S
SumOver(f, S) ==
    IF S = {} THEN 0
    ELSE LET p == CHOOSE q \in S : TRUE IN f[p] + SumOver(f, S \ {p})

(***************************************************************************)
(* Images: a function from <<row, col>> to a value.                        *)
(***************************************************************************)
RowsOf(im) == {p[1] : p \in DOMAIN im}
ColsOf(im) == {p[2] : p \in DOMAIN im}
ylimit(im) == Cardinality(RowsOf(im))       \* len(hp_img)
xlimit(im) == Cardinality(ColsOf(im))       \* len(hp_img[0])
Raster(im, p) == p[1] * xlimit(im) + p[2]   \* row-major position
ToQuarters(v) == 4 * v
Counts(q) == q \div 4                       \* astype(integer) truncates

(***************************************************************************)
(* remove_hot_pixels (lines 89-119)                                        *)
(***************************************************************************)
NPix(im) == Cardinality(DOMAIN im)
Total(im) == SumOver(im, DOMAIN im)
TotalSq(im) == SumOver([p \in DOMAIN im |-> im[p] * im[p]], DOMAIN im)
\* v - np.mean(image), times the number of pixels
Dev(im, v) == NPix(im) * v - Total(im)
\* (nsigma * np.std(image)) squared, times the number of pixels squared
Spread2(im, ns) == ns * ns * (NPix(im) * TotalSq(im) - Total(im) * Total(im))
\* v > hot_thresh, v < hot_thresh and v == hot_thresh for
\* hot_thresh = im_mean + nsigma * im_sig, in exact arithmetic
AboveThresh(im, ns, v) == Dev(im, v) > 0 /\ Dev(im, v) * Dev(im, v) > Spread2(im, ns)
BelowThresh(im, ns, v) == Dev(im, v) < 0 \/ Dev(im, v) * Dev(im, v) < Spread2(im, ns)
AtThresh(im, ns, v) == ~AboveThresh(im, ns, v) /\ ~BelowThresh(im, ns, v)

\* the k-th smallest value (k from 0) of the image
KthSmallest(im, k) ==
    CHOOSE v \in Range(im) :
        /\ Cardinality({p \in DOMAIN im : im[p] < v}) <= k
        /\ Cardinality({p \in DOMAIN im : im[p] <= v}) > k
\* np.median(image): the middle value, or the mean of the two middle values
Median(im) ==
    LET n == NPix(im) IN
    IF n % 2 = 1 THEN KthSmallest(im, n \div 2)
    ELSE (KthSmallest(im, n \div 2 - 1) + KthSmallest(im, n \div 2)) \div 2

\* lines 99-103: the uint32 copy with the values below hot_thresh zeroed
\* (a value equal to hot_thresh is not "low" and is kept).  The pixels are
\* non-negative counts far below 2^32, so the cast only drops the fraction.
HpImg(im, ns) ==
    [p \in DOMAIN im |->
        LET v == ToQuarters(Counts(im[p])) IN
        IF BelowThresh(im, ns, v) THEN 0 ELSE v]
\* line 104: the positions np.where(hp_img > hot_thresh) yields
Ind(im, ns) == {p \in DOMAIN im : AboveThresh(im, ns, HpImg(im, ns)[p])}
\* line 109
OnEdge(im, p) ==
    \/ p[1] = 0 \/ p[1] = ylimit(im) - 1
    \/ p[2] = 0 \/ p[2] = xlimit(im) - 1
Neighbours(p) ==
    {<<p[1] + 1, p[2]>>, <<p[1] - 1, p[2]>>, <<p[1], p[2] - 1>>, <<p[1], p[2] + 1>>}
\* lines 113-114 (four counts below 2^16 do not wrap a uint32)
neighborsum(hp, p) == SumOver(hp, Neighbours(p))

RECURSIVE HotLoop(_, _, _)
\* lines 108-117: the positions of ind in row-major order, image changed in
\* place as the loop goes
HotLoop(im, hp, todo) ==
    IF todo = {} THEN im
    ELSE
        LET p == CHOOSE q \in todo : \A r \in todo : Raster(im, q) <= Raster(im, r)
            next ==
                IF OnEdge(im, p) THEN [im EXCEPT ![p] = Median(im)]
                ELSE IF neighborsum(hp, p) = 0
                    THEN [im EXCEPT ![p] = SumOver(im, Neighbours(p)) \div 4]
                    ELSE im
        IN HotLoop(next, hp, todo \ {p})

remove_hot_pixels(im, ns) == HotLoop(im, HpImg(im, ns), Ind(im, ns))

\* the images and nsigma values remove_hot_pixels is run on
HotShape == (0..2) \X (0..2)
HotPixVals == {0, 3, 6}
HotSigmas == {1, 2}

InitHot ==
    /\ pc = "hp_call"
    /\ image0 \in [HotShape -> {ToQuarters(v) : v \in HotPixVals}]
    /\ image = image0
    /\ nsigma \in HotSigmas
    /\ FIdle /\ GIdle /\ MIdle

RemoveHotPixels ==
    /\ pc = "hp_call"
    /\ image' = remove_hot_pixels(image, nsigma)
    /\ pc' = "hp_done"
    /\ UNCHANGED <<image0, nsigma, fvars, gvars, mvars>>

NextHot == RemoveHotPixels
SpecHot == InitHot /\ [][NextHot]_vars

\* the rule of C10 applied to the pixels of todo in row-major order, the
\* median being that of the image when the border pixel is reached; a
\* neighbour equal to hot_threshold blocks the average only if equalBlocks
RECURSIVE C10_Apply(_, _, _)
C10_Apply(im, todo, equalBlocks) ==
    IF todo = {} THEN im
    ELSE
        LET p == CHOOSE q \in todo : \A r \in todo : Raster(im, q) <= Raster(im, r)
            free(q) == IF equalBlocks THEN BelowThresh(image0, nsigma, image0[q])
                       ELSE ~AboveThresh(image0, nsigma, image0[q])
            new == IF OnEdge(im, p) THEN Median(im)
                   ELSE IF \A q \in Neighbours(p) : free(q)
                       THEN SumOver(image0, Neighbours(p)) \div 4
                       ELSE im[p]
        IN C10_Apply([im EXCEPT ![p] = new], todo \ {p}, equalBlocks)
C10_Hot == {p \in DOMAIN image0 : AboveThresh(image0, nsigma, image0[p])}

\* C10: remove_hot_pixels changes only the pixels above hot_threshold: an
\* interior one becomes the average of its four neighbours if and only if
\* none of the four is above hot_threshold (a neighbour equal to
\* hot_threshold does not block), a border one becomes the image median,
\* every other pixel is unchanged.
C10_HotPixelRule ==
    pc = "hp_done" => image = C10_Apply(image0, C10_Hot, FALSE)

\* C10, what the code does: a neighbour at or above hot_threshold blocks the
\* replacement of an interior hot pixel.
C10_CodeRule ==
    pc = "hp_done" => image = C10_Apply(image0, C10_Hot, TRUE)

(***************************************************************************)
(* is_too_close, filter_points (lines 285-297)                             *)
(***************************************************************************)
is_too_close_either(point1, point2, thr) ==
    Abs(point1[1] - point2[1]) < thr \/ Abs(point1[2] - point2[2]) < thr
is_too_close(point1, point2, thr) ==
    Abs(point1[1] - point2[1]) < thr /\ Abs(point1[2] - point2[2]) < thr

RECURSIVE FilterLoop(_, _, _, _)
\* lines 292-296, the loop from the k-th point on
FilterLoop(pts, thr, k, acc) ==
    IF k > Len(pts) THEN acc
    ELSE
        LET too_close == \E j \in 1..Len(acc) : is_too_close(pts[k], acc[j], thr)
        IN FilterLoop(pts, thr, k + 1, IF too_close THEN acc ELSE Append(acc, pts[k]))

filter_points(pts, thr) == FilterLoop(pts, thr, 1, <<>>)

\* the inputs of filter_points: up to MaxPoints points on a small grid, and
\* the three points (10,10), (10.5,10.2), (30,30) with threshold 5
MaxPoints == 3
Coords == {0, 10, 20}
Thresholds == {0, 10, 20}
Example == [points |-> <<<<100, 100>>, <<105, 102>>, <<300, 300>>>>, threshold |-> 50]

InitFilter ==
    /\ pc = "fp_call"
    /\ \/ points \in SeqsUpTo(Coords \X Coords, MaxPoints) /\ threshold \in Thresholds
       \/ points = Example.points /\ threshold = Example.threshold
    /\ filtered_points = <<>>
    /\ HIdle /\ GIdle /\ MIdle

FilterPoints ==
    /\ pc = "fp_call"
    /\ filtered_points' = filter_points(points, threshold)
    /\ pc' = "fp_done"
    /\ UNCHANGED <<points, threshold, hvars, gvars, mvars>>

NextFilter == FilterPoints
SpecFilter == InitFilter /\ [][NextFilter]_vars

\* C2: filter_points returns a subsequence of points in their order, a
\* point being accepted if and only if no earlier accepted point is within
\* threshold of it on both axes (strictly); so the first point is accepted
\* and no two accepted points are within threshold on both axes; the points
\* (10,10), (10.5,10.2), (30,30) with threshold 5 give (10,10), (30,30).
C2_Near(p, q) ==
    /\ p[1] - q[1] < threshold /\ q[1] - p[1] < threshold
    /\ p[2] - q[2] < threshold /\ q[2] - p[2] < threshold
\* the positions kept, in increasing order
C2_Kept(acc) == [k \in 1..Cardinality(acc) |->
    CHOOSE j \in acc : Cardinality({m \in acc : m < j}) = k - 1]
C2_FilterPoints ==
    pc = "fp_done" =>
        /\ \E acc \in SUBSET (1..Len(points)) :
            /\ filtered_points = [k \in 1..Cardinality(acc) |-> points[C2_Kept(acc)[k]]]
            /\ \A j \in 1..Len(points) :
                j \in acc <=> ~\E m \in acc : m < j /\ C2_Near(points[m], points[j])
        /\ points # <<>> => filtered_points # <<>> /\ filtered_points[1] = points[1]
        /\ \A a, b \in 1..Len(filtered_points) :
            a # b => ~C2_Near(filtered_points[a], filtered_points[b])
        /\ (points = Example.points /\ threshold = Example.threshold)
            => filtered_points = <<<<100, 100>>, <<300, 300>>>>
\* a point was rejected for an accepted point close on both axes, and a
\* point close on one axis only was accepted
C2_Witness ==
    /\ pc = "fp_done"
    /\ Len(points) = 3 /\ Len(filtered_points) = 2
    /\ \E a, b \in 1..2 : a # b /\
        filtered_points[a][1] = filtered_points[b][1] /\ threshold > 0

(***************************************************************************)
(* SpotFinder.get_centroids (lines 345-430)                                *)
(***************************************************************************)
max_counts == 65535
fboxsize == 7

RECURSIVE InsertUnstable(_, _, _, _)
\* as InsertByKey, but an index goes before the indices of equal key
InsertUnstable(s, k, key, pos) ==
    IF pos > Len(s) \/ key[k] <= key[s[pos]]
    THEN SubSeq(s, 1, pos - 1) \o <<k>> \o SubSeq(s, pos, Len(s))
    ELSE InsertUnstable(s, k, key, pos + 1)

RECURSIVE InsertByKey(_, _, _, _)
\* index k put into s, which is ordered by key, after every index whose key
\* is not greater: Python's sorted is stable
InsertByKey(s, k, key, pos) ==
    IF pos > Len(s) \/ key[k] < key[s[pos]]
    THEN SubSeq(s, 1, pos - 1) \o <<k>> \o SubSeq(s, pos, Len(s))
    ELSE InsertByKey(s, k, key, pos + 1)

RECURSIVE SortedFrom(_, _, _)
SortedFrom(s, k, key) ==
    IF k > Len(key) THEN s
    ELSE SortedFrom(InsertByKey(s, k, key, 1), k + 1, key)

\* line 364: sorted(range(len(peaks)), key=lambda k: -peaks[k]), the
\* indices counted from 1
SortedIndex(pk) == SortedFrom(<<>>, 1, [k \in 1..Len(pk) |-> -pk[k]])

\* line 362: FWHMSub[i] * (peaks[i] / max_counts), as numerator and denominator
Energy(fw, pk) == [k \in 1..Len(pk) |-> <<fw[k] * pk[k], max_counts>>]

Take(col, idx) == [k \in 1..Len(idx) |-> col[idx[k]]]

\* lines 378-380: (x + 1, y + 1, fwhm, peak, energy, i), i counted from 0
Points(c) ==
    [k \in 1..Len(c.x) |->
        <<c.x[k] + 1, c.y[k] + 1, c.fwhm[k], c.peaks[k], c.energy[k], k - 1>>]

\* what multiCens hands back: four lists of one length, one entry per spot,
\* or an exception; on self.img = None line 193 raises
MaxSpots == 4
SpotSet ==
    { [x |-> 10, y |-> 10, peak |-> 100, fwhm |-> 2],
      [x |-> 12, y |-> 11, peak |-> 500, fwhm |-> 3],
      [x |-> 30, y |-> 30, peak |-> 100, fwhm |-> 4],
      [x |-> 10, y |-> 30, peak |-> 500, fwhm |-> 2] }
Returned(spots) ==
    [raised |-> FALSE,
     x |-> [k \in 1..Len(spots) |-> spots[k].x],
     y |-> [k \in 1..Len(spots) |-> spots[k].y],
     peaks |-> [k \in 1..Len(spots) |-> spots[k].peak],
     fwhm |-> [k \in 1..Len(spots) |-> spots[k].fwhm]]
Raised == [raised |-> TRUE, x |-> <<>>, y |-> <<>>, peaks |-> <<>>, fwhm |-> <<>>]
MultiCensOutcomes(im) ==
    IF im = "None" THEN {Raised}
    ELSE {Raised} \cup {Returned(spots) : spots \in SeqsUpTo(SpotSet, MaxSpots)}

InitGC ==
    /\ pc = "gc_call"
    /\ self_img \in {"None", "array"}
    /\ print_summary \in BOOLEAN
    /\ mc_out = [raised |-> FALSE, x |-> <<>>, y |-> <<>>, peaks |-> <<>>, fwhm |-> <<>>]
    /\ bound = FALSE /\ sindex = <<>> /\ sorted_cols = [kind |-> "unbound"]
    /\ centroids = [kind |-> "unbound"] /\ gc_filtered = <<>>
    /\ gc_result = [kind |-> "running"]
    /\ HIdle /\ FIdle /\ MIdle

\* lines 346-356: self.img is None or an array, never a bool, so the guard
\* of line 346 lets both through; then the call of multiCens
TryMultiCens ==
    /\ pc = "gc_call"
    /\ \E out \in MultiCensOutcomes(self_img) :
        /\ mc_out' = out
        /\ pc' = IF out.raised THEN "gc_except" ELSE "gc_rank"
    /\ UNCHANGED <<self_img, print_summary, bound, sindex, sorted_cols,
                   centroids, gc_filtered, gc_result, hvars, fvars, mvars>>

\* lines 362-372
Rank ==
    /\ pc = "gc_rank"
    /\ LET energy == Energy(mc_out.fwhm, mc_out.peaks)
           idx == SortedIndex(mc_out.peaks)
           cols == [kind |-> "dict",
                    peaks |-> Take(mc_out.peaks, idx), x |-> Take(mc_out.x, idx),
                    y |-> Take(mc_out.y, idx), fwhm |-> Take(mc_out.fwhm, idx),
                    energy |-> Take(energy, idx)]
       IN /\ sindex' = idx
          /\ sorted_cols' = cols
          /\ centroids' = cols
    /\ bound' = TRUE
    /\ pc' = "gc_finally"
    /\ UNCHANGED <<self_img, print_summary, mc_out, gc_filtered, gc_result,
                   hvars, fvars, mvars>>

\* lines 373-374
Except ==
    /\ pc = "gc_except"
    /\ centroids' = [kind |-> "None"]
    /\ pc' = "gc_finally"
    /\ UNCHANGED <<self_img, print_summary, mc_out, bound, sindex, sorted_cols,
                   gc_filtered, gc_result, hvars, fvars, mvars>>

\* line 379 with x_sorted never assigned: UnboundLocalError leaves the
\* finally block and get_centroids
FinallyUnbound ==
    /\ pc = "gc_finally" /\ ~bound
    /\ gc_result' = [kind |-> "UnboundLocalError"]
    /\ pc' = "gc_escaped"
    /\ UNCHANGED <<self_img, print_summary, mc_out, bound, sindex, sorted_cols,
                   centroids, gc_filtered, hvars, fvars, mvars>>

\* lines 378-381
FinallyFilter ==
    /\ pc = "gc_finally" /\ bound
    /\ gc_filtered' = filter_points(Points(sorted_cols), fboxsize)
    /\ pc' = IF print_summary THEN "gc_summary" ELSE "gc_return"
    /\ UNCHANGED <<self_img, print_summary, mc_out, bound, sindex, sorted_cols,
                   centroids, gc_result, hvars, fvars, mvars>>

\* lines 383-420: the summary prints the filtered points; min(peaks_sorted)
\* of line 417 raises ValueError on an empty list
Summary ==
    /\ pc = "gc_summary"
    /\ IF sorted_cols.peaks = <<>>
       THEN gc_result' = [kind |-> "ValueError"] /\ pc' = "gc_escaped"
       ELSE gc_result' = gc_result /\ pc' = "gc_return"
    /\ UNCHANGED <<self_img, print_summary, mc_out, bound, sindex, sorted_cols,
                   centroids, gc_filtered, hvars, fvars, mvars>>

\* line 430
Return ==
    /\ pc = "gc_return"
    /\ gc_result' = centroids
    /\ pc' = "gc_returned"
    /\ UNCHANGED <<self_img, print_summary, mc_out, bound, sindex, sorted_cols,
                   centroids, gc_filtered, hvars, fvars, mvars>>

NextGC ==
    \/ TryMultiCens \/ Rank \/ Except \/ FinallyUnbound \/ FinallyFilter
    \/ Summary \/ Return
SpecGC == InitGC /\ [][NextGC]_vars

\* C4: with no image loaded (self.img is None) get_centroids hands its
\* caller a failure indication and no exception leaves it.
C4_NoImageFailsCleanly ==
    self_img = "None" =>
        /\ pc # "gc_escaped"
        /\ pc = "gc_returned" => gc_result.kind \in {"None", "FAILED: fits file required"}

\* C5: the result handed to the caller holds only the spots filter_points
\* accepted: every index of the returned sequences is an accepted point.
C5_OnlyAcceptedReturned ==
    (pc = "gc_returned" /\ gc_result.kind = "dict") =>
        \A a \in 1..Len(gc_result.x) :
            \E f \in 1..Len(gc_filtered) : gc_filtered[f][6] = a - 1

\* C6: the spots are ordered by peak descending, ties in discovery order,
\* and the one permutation is applied to all five sequences; the peaks
\* [100, 500, 100, 500] give the order [1, 3, 0, 2] (here counted from 1).
C6_StableRanking ==
    (pc = "gc_returned" /\ gc_result.kind = "dict") =>
        LET n == Len(mc_out.peaks) IN
        /\ Len(sindex) = n /\ Range(sindex) = 1..n
        /\ \A a, b \in 1..n : a < b =>
            \/ mc_out.peaks[sindex[a]] > mc_out.peaks[sindex[b]]
            \/ mc_out.peaks[sindex[a]] = mc_out.peaks[sindex[b]] /\ sindex[a] < sindex[b]
        /\ \A c \in {"peaks", "x", "y", "fwhm", "energy"} : Len(gc_result[c]) = n
        /\ \A a \in 1..n :
            /\ gc_result.peaks[a] = mc_out.peaks[sindex[a]]
            /\ gc_result.x[a] = mc_out.x[sindex[a]]
            /\ gc_result.y[a] = mc_out.y[sindex[a]]
            /\ gc_result.fwhm[a] = mc_out.fwhm[sindex[a]]
            /\ gc_result.energy[a] =
                <<mc_out.fwhm[sindex[a]] * mc_out.peaks[sindex[a]], max_counts>>
        /\ mc_out.peaks = <<100, 500, 100, 500>> => sindex = <<2, 4, 1, 3>>
\* the peaks [100, 500, 100, 500] were ranked and returned
C6_Witness ==
    /\ pc = "gc_returned" /\ gc_result.kind = "dict"
    /\ mc_out.peaks = <<100, 500, 100, 500>>
    /\ gc_result.peaks = <<500, 500, 100, 100>>

(***************************************************************************)
(* multiCens (lines 181-276)                                               *)
(***************************************************************************)
\* line 193
ClampNegative(im) == [p \in DOMAIN im |-> IF im[p] < 0 THEN 0 ELSE im[p]]
\* lines 195-197: remove_hot_pixels(img, 7), then astype(np.uint16)
HotFiltered(im) ==
    LET out == remove_hot_pixels([p \in DOMAIN im |-> ToQuarters(im[p])], 7)
    IN [p \in DOMAIN im |-> Counts(out[p]) % 65536]
MaxOf(im) == CHOOSE v \in Range(im) : \A w \in Range(im) : w <= v
\* lines 199-200: int(0.1 * max)
level_frac(im) == MaxOf(im) \div 10
\* line 204: mahotas picks a grey level of the histogram; any level between
\* two pixel values present binarizes like the lower of them
OtsuLevels(im) == {0} \cup Range(im)
\* lines 172-178
im2bw(im, lv) == [p \in DOMAIN im |-> IF im[p] > lv THEN 1 ELSE 0]

\* line 218: mh.label with its default structuring element, the 3x3 cross
\* (4-connectivity); regions are numbered from 1 in row-major order of their
\* first pixel, the background is 0
Adjacent(p, q) == Abs(p[1] - q[1]) + Abs(p[2] - q[2]) = 1
RECURSIVE Grow(_, _)
Grow(b, S) ==
    LET T == S \cup {q \in DOMAIN b : b[q] = 1 /\ \E p \in S : Adjacent(p, q)}
    IN IF T = S THEN S ELSE Grow(b, T)
Component(b, p) == Grow(b, {p})
IsFirst(b, p) == b[p] = 1 /\ \A q \in Component(b, p) : Raster(b, p) <= Raster(b, q)
label(b) ==
    [p \in DOMAIN b |->
        IF b[p] = 0 THEN 0
        ELSE LET first == CHOOSE r \in Component(b, p) : IsFirst(b, r)
             IN 1 + Cardinality({r \in DOMAIN b : IsFirst(b, r) /\ Raster(b, r) < Raster(b, first)})]
nr_objects(lab) == Cardinality(Range(lab) \ {0})
\* line 219: sizes[l] is the number of pixels labelled l, l = 0 the background
labeled_size(lab) ==
    [l \in 0..nr_objects(lab) |-> Cardinality({p \in DOMAIN lab : lab[p] = l})]
\* line 221: np.argsort(sizes)[::-1]; the default sort kind is not stable, so
\* labels of equal size come in any order
DescendingOrders(sz) ==
    LET n == Cardinality(DOMAIN sz) IN
    {s \in [1..n -> DOMAIN sz] :
        /\ \A a, b \in 1..n : a # b => s[a] # s[b]
        /\ \A a, b \in 1..n : a < b => sz[s[a]] >= sz[s[b]]}
\* lines 223-224: sorted_sizes_indexes[1:n_centroids_to_keep + 1]
TopSlice(srt, n) == SubSeq(srt, 2, Min2(n + 1, Len(srt)))

\* scipy.ndimage.center_of_mass(input, labels, index) for one label: the sums
\* of row * input and col * input over the label's pixels and the sum of
\* input, kept as the numerators and the common denominator
CenterOfMass(input, labels, l) ==
    LET S == {p \in DOMAIN labels : labels[p] = l} IN
    [row |-> SumOver([p \in DOMAIN input |-> p[1] * input[p]], S),
     col |-> SumOver([p \in DOMAIN input |-> p[2] * input[p]], S),
     den |-> SumOver(input, S)]
CentersWeighted(im, lab, good) ==
    [k \in 1..Len(good) |-> CenterOfMass(im, lab, good[k])]
\* line 241: center_of_mass(labeled, labels=labeled, index=[good_spot_indexes])
Centers(im, lab, good) ==
    [k \in 1..Len(good) |-> CenterOfMass(lab, lab, good[k])]

\* line 250 / 257: abs(2.355 * max(params[4], params[5]))
Fwhm(prm) == Abs(2355 * Max2(prm[5], prm[6]))
\* line 252: fwhm < .5
NeedsRefit(f) == f < 500000
\* line 254
SmallerBoxSame(nbox) == nbox
SmallerBox(nbox) == nbox - 1
\* what fitgaussian hands back for a window: (bias, height, x, y, width_x,
\* width_y) as the least-squares fit left them
Widths == {100, 1000}
FitResults == {<<0, 100, 1, 1, w, 50>> : w \in Widths}

\* the images and arguments multiCens is called with
ImgCols == 2
MaxKeep == 2
DefaultFitbox == 10
MCShape == (0..1) \X (0..(ImgCols - 1))
PixVals == {0, 5, 20}
Fitboxes == {7, DefaultFitbox}
SaveDirs == {"", "out/"}

InitMC ==
    /\ pc = "mc_start"
    /\ img \in [MCShape -> PixVals]
    /\ n_centroids_to_keep \in 1..MaxKeep
    /\ no_otsu \in BOOLEAN
    /\ save_dir \in SaveDirs
    /\ size_fitbox \in Fitboxes
    /\ call = [n_centroids_to_keep |-> n_centroids_to_keep, no_otsu |-> no_otsu,
               save_dir |-> save_dir, size_fitbox |-> size_fitbox]
    /\ level = 0 /\ bw = img /\ labeled = img /\ sizes = <<>>
    /\ sorted_sizes_indexes = <<>> /\ good_spot_indexes = <<>>
    /\ centers = <<>> /\ i = 0 /\ params = <<>> /\ fwhm = 0 /\ fits = <<>>
    /\ xCenSub = <<>> /\ yCenSub = <<>> /\ peaks = <<>> /\ FWHMSub = <<>>
    /\ retries = 0 /\ hot_runs = 0
    /\ HIdle /\ FIdle /\ GIdle

\* lines 193-206
Threshold ==
    /\ pc = "mc_start"
    /\ LET im == HotFiltered(ClampNegative(img)) IN
        /\ img' = im
        /\ \E lv \in (IF no_otsu THEN {level_frac(im)}
                      ELSE {Max2(o, level_frac(im)) : o \in OtsuLevels(im)}) :
            /\ level' = lv
            /\ bw' = im2bw(im, lv)
    /\ hot_runs' = hot_runs + 1
    /\ pc' = "mc_label"
    /\ UNCHANGED <<n_centroids_to_keep, no_otsu, save_dir, size_fitbox, call,
                   labeled, sizes, sorted_sizes_indexes, good_spot_indexes,
                   centers, i, params, fwhm, fits, xCenSub, yCenSub, peaks,
                   FWHMSub, retries, hvars, fvars, gvars>>

\* lines 218-224
Select ==
    /\ pc = "mc_label"
    /\ labeled' = label(bw)
    /\ sizes' = labeled_size(labeled')
    /\ sorted_sizes_indexes' \in DescendingOrders(sizes')
    /\ good_spot_indexes' = TopSlice(sorted_sizes_indexes', n_centroids_to_keep)
    /\ pc' = "mc_check"
    /\ UNCHANGED <<img, n_centroids_to_keep, no_otsu, save_dir, size_fitbox,
                   call, level, bw, centers, i, params, fwhm, fits, xCenSub,
                   yCenSub, peaks, FWHMSub, retries, hot_runs, hvars, fvars, gvars>>

\* line 229
Insufficient == Len(good_spot_indexes) < n_centroids_to_keep /\ ~no_otsu

\* lines 229-232: return multiCens(img, n_centroids_to_keep, verbose,
\* write_fits, no_otsu=True); save_dir and size_fitbox take their defaults
Retry ==
    /\ pc = "mc_check" /\ Insufficient
    /\ no_otsu' = TRUE
    /\ save_dir' = ""
    /\ size_fitbox' = DefaultFitbox
    /\ retries' = retries + 1
    /\ pc' = "mc_start"
    /\ UNCHANGED <<img, n_centroids_to_keep, call, level, bw, labeled, sizes,
                   sorted_sizes_indexes, good_spot_indexes, centers, i, params,
                   fwhm, fits, xCenSub, yCenSub, peaks, FWHMSub, hot_runs,
                   hvars, fvars, gvars>>

\* lines 235-243
FindCenters ==
    /\ pc = "mc_check" /\ ~Insufficient
    /\ centers' = Centers(img, labeled, good_spot_indexes)
    /\ FWHMSub' = <<>> /\ xCenSub' = <<>> /\ yCenSub' = <<>> /\ peaks' = <<>>
    /\ fits' = <<>>
    /\ i' = 1
    /\ pc' = "mc_loop"
    /\ UNCHANGED <<img, n_centroids_to_keep, no_otsu, save_dir, size_fitbox,
                   call, level, bw, labeled, sizes, sorted_sizes_indexes,
                   good_spot_indexes, params, fwhm, retries, hot_runs,
                   hvars, fvars, gvars>>

\* lines 244-250.  A centre 0/0 is nan and int(round(nan)) raises ValueError.
\* With the images and fit boxes above the window img[py-nbox:py+nbox,
\* px-nbox:px+nbox] is the whole image.
FitFirst ==
    /\ pc = "mc_loop" /\ i <= Len(centers)
    /\ IF centers[i].den = 0
       THEN /\ pc' = "mc_raised"
            /\ UNCHANGED <<params, fwhm, fits>>
       ELSE \E prm \in FitResults :
            /\ params' = prm
            /\ fwhm' = Fwhm(prm)
            /\ fits' = Append(fits, <<[box |-> size_fitbox, fwhm |-> Fwhm(prm)]>>)
            /\ pc' = IF NeedsRefit(Fwhm(prm)) THEN "mc_refit" ELSE "mc_emit"
    /\ UNCHANGED <<img, n_centroids_to_keep, no_otsu, save_dir, size_fitbox,
                   call, level, bw, labeled, sizes, sorted_sizes_indexes,
                   good_spot_indexes, centers, i, xCenSub, yCenSub, peaks,
                   FWHMSub, retries, hot_runs, hvars, fvars, gvars>>

\* lines 252-257
FitAgain ==
    /\ pc = "mc_refit"
    /\ \E prm \in FitResults :
        /\ params' = prm
        /\ fwhm' = Fwhm(prm)
        /\ fits' = [fits EXCEPT ![i] =
                        Append(@, [box |-> SmallerBox(size_fitbox), fwhm |-> Fwhm(prm)])]
    /\ pc' = "mc_emit"
    /\ UNCHANGED <<img, n_centroids_to_keep, no_otsu, save_dir, size_fitbox,
                   call, level, bw, labeled, sizes, sorted_sizes_indexes,
                   good_spot_indexes, centers, i, xCenSub, yCenSub, peaks,
                   FWHMSub, retries, hot_runs, hvars, fvars, gvars>>

\* lines 261-274: x[1] - float(nbox) + params[3] over the centre's denominator
Emit ==
    /\ pc = "mc_emit"
    /\ xCenSub' = Append(xCenSub,
            <<centers[i].col + (params[4] - size_fitbox) * centers[i].den, centers[i].den>>)
    /\ yCenSub' = Append(yCenSub,
            <<centers[i].row + (params[3] - size_fitbox) * centers[i].den, centers[i].den>>)
    /\ FWHMSub' = Append(FWHMSub, fwhm)
    /\ peaks' = Append(peaks, params[2])
    /\ i' = i + 1
    /\ pc' = "mc_loop"
    /\ UNCHANGED <<img, n_centroids_to_keep, no_otsu, save_dir, size_fitbox,
                   call, level, bw, labeled, sizes, sorted_sizes_indexes,
                   good_spot_indexes, centers, params, fwhm, fits, retries,
                   hot_runs, hvars, fvars, gvars>>

\* line 276
ReturnLists ==
    /\ pc = "mc_loop" /\ i > Len(centers)
    /\ pc' = "mc_returned"
    /\ UNCHANGED <<hvars, fvars, gvars, mvars>>

NextMC ==
    \/ Threshold \/ Select \/ Retry \/ FindCenters \/ FitFirst \/ FitAgain
    \/ Emit \/ ReturnLists
SpecMC == InitMC /\ [][NextMC]_vars

PixelsOf(l) == {p \in DOMAIN labeled : labeled[p] = l}
Selected == pc \in {"mc_check", "mc_loop", "mc_refit", "mc_emit", "mc_returned", "mc_raised"}
Located == pc \in {"mc_loop", "mc_refit", "mc_emit", "mc_returned", "mc_raised"}

\* C1: good_spot_indexes has at most n_centroids_to_keep entries, never holds
\* the background label 0, and is the n_centroids_to_keep largest
\* non-background labels, also when a region is as large as the background.
C1_LargestForegroundLabels ==
    Selected =>
        /\ Len(good_spot_indexes) <= n_centroids_to_keep
        /\ 0 \notin Range(good_spot_indexes)
        /\ Len(good_spot_indexes) = Min2(n_centroids_to_keep, nr_objects(labeled))
        /\ \A g \in Range(good_spot_indexes) :
            \A h \in (1..nr_objects(labeled)) \ Range(good_spot_indexes) :
                sizes[g] >= sizes[h]

\* C3: the retry happens at most once, only after an Otsu pass that selected
\* fewer than n_centroids_to_keep candidates, the retry pass is fractional
\* and never retries again, and the invocation returns the spots found.
C3_RetryOnceAndReturn ==
    /\ retries <= 1
    /\ retries = 1 => no_otsu /\ ~call.no_otsu
    /\ pc # "mc_raised"
    /\ pc = "mc_returned" => Len(xCenSub) = Len(good_spot_indexes)

\* C3, the part about the retry alone: a retry is made only by an Otsu pass
\* short of candidates, it starts a fractional pass, and there is one at most.
C3_RetryBound ==
    [][retries' # retries =>
        /\ retries = 0 /\ retries' = 1
        /\ ~no_otsu /\ no_otsu'
        /\ Len(good_spot_indexes) < n_centroids_to_keep]_vars

C8_RetryKeepsArguments ==
    retries >= 1 =>
        /\ no_otsu
        /\ n_centroids_to_keep = call.n_centroids_to_keep
        /\ size_fitbox = call.size_fitbox
        /\ save_dir = call.save_dir
        /\ hot_runs <= 1

\* C9: a candidate is fitted at most twice, the second time only when the
\* first FWHM is below 0.5 and then with half-width size_fitbox - 1; one
\* record per candidate is appended, whatever the last FWHM, so the four
\* lists returned are as long as the candidate list.
C9_FitAtMostTwice ==
    /\ \A k \in 1..Len(fits) :
        /\ Len(fits[k]) \in {1, 2}
        /\ fits[k][1].box = size_fitbox
        /\ Len(fits[k]) = 2 =>
            /\ fits[k][1].fwhm < 500000
            /\ fits[k][2].box = size_fitbox - 1
        /\ k <= Len(FWHMSub) =>
            /\ fits[k][1].fwhm < 500000 => Len(fits[k]) = 2
            /\ FWHMSub[k] = fits[k][Len(fits[k])].fwhm
    /\ Len(xCenSub) = Len(FWHMSub) /\ Len(yCenSub) = Len(FWHMSub)
    /\ Len(peaks) = Len(FWHMSub)
    /\ Len(fits) - Len(FWHMSub) \in {0, 1}
    /\ pc = "mc_returned" =>
        /\ Len(FWHMSub) = Len(good_spot_indexes)
        /\ Len(fits) = Len(good_spot_indexes)
\* a candidate was fitted twice and its record kept with an FWHM below 0.5
C9_Witness ==
    /\ pc = "mc_returned"
    /\ \E k \in 1..Len(fits) : Len(fits[k]) = 2 /\ FWHMSub[k] < 500000

====
